---------------------------- MODULE Spec2Model ----------------------------
(***************************************************************************)
(* Model of the Roslyn-Stone Gradio console core:                          *)
(*   - components/mcp_client.py : McpHttpClient, the JSON-RPC transport    *)
(*   - utils/llm_providers.py   : the tool-calling relay functions         *)
(*                                                                         *)
(* Python values are encoded as tagged records so that values of different *)
(* Python types can be compared.  Texts (HTTP bodies, JSON documents) are  *)
(* sequences of tokens; serialising and parsing are separate operators.    *)
(***************************************************************************)
EXTENDS Integers, Sequences, FiniteSets, TLC

(***************************************************************************)
(* Python / JSON values                                                    *)
(***************************************************************************)
JNull == [t |-> "null"]
JNum(n) == [t |-> "num", v |-> n]
JStr(s) == [t |-> "str", v |-> s]
JList(s) == [t |-> "list", v |-> s]
JObj(f) == [t |-> "obj", v |-> f]
EmptyMap == [k \in {} |-> JNull]
EmptyObj == JObj(EmptyMap)

\* mutant of DictGet: dict.get(key), the default forgotten
DictGetNoDefault(d, key, default) == IF key \in DOMAIN d.v THEN d.v[key] ELSE JNull

\* dict.get(key, default)
DictGet(d, key, default) == IF key \in DOMAIN d.v THEN d.v[key] ELSE default

\* Strings of the model that contain the substring "error"
\* (Python's `"error" in some_string` is a substring test).
StringsContainingError == {"error", "server error"}

\* Python's `key in container`: "true", "false" or "TypeError"
PyIn(key, c) ==
    CASE c.t = "obj" -> IF key \in DOMAIN c.v THEN "true" ELSE "false"
      [] c.t = "list" -> IF \E i \in 1..Len(c.v) : c.v[i] = JStr(key)
                         THEN "true" ELSE "false"
      [] c.t = "str" -> IF c.v \in StringsContainingError THEN "true" ELSE "false"
      [] OTHER -> "TypeError"

(***************************************************************************)
(* Texts: sequences of tokens.  The framing literals are spelled character *)
(* by character; a JSON atom (a number, a string's content, a bracket) is  *)
(* one token.                                                              *)
(***************************************************************************)
LF == "\n"
Whitespace == {" ", LF, "\r", "\t"}
EventPrefix == <<"e", "v", "e", "n", "t", ":">>
DataPrefix == <<"d", "a", "t", "a", ":", " ">>

\* str.startswith
StartsWith(text, prefix) ==
    /\ Len(text) >= Len(prefix)
    /\ SubSeq(text, 1, Len(prefix)) = prefix

\* text[n:]
DropFirst(text, n) == SubSeq(text, n + 1, Len(text))

\* str.strip(): the text between its first and its last non-blank token
Strip(text) ==
    LET solid == {k \in 1..Len(text) : text[k] \notin Whitespace}
    IN  IF solid = {} THEN <<>>
        ELSE SubSeq(text,
                    CHOOSE k \in solid : \A j \in solid : k <= j,
                    CHOOSE k \in solid : \A j \in solid : k >= j)

\* str.split(sep): the pieces between occurrences of the token sep
Split(text, sep) ==
    LET seps == {k \in 1..Len(text) : text[k] = sep}
        n == Cardinality(seps)
        at(k) == CHOOSE p \in seps : Cardinality({q \in seps : q < p}) = k - 1
    IN  [k \in 1..(n + 1) |->
            SubSeq(text,
                   IF k = 1 THEN 1 ELSE at(k - 1) + 1,
                   IF k = n + 1 THEN Len(text) ELSE at(k) - 1)]

(***************************************************************************)
(* JSON serialisation (json.dumps, compact token form) and parsing         *)
(* (json.loads / Response.json)                                            *)
(***************************************************************************)
KeyOrder == <<"jsonrpc", "id", "result", "error", "tools", "name", "code",
              "message", "k", "contents", "uri", "mimeType", "text">>

RECURSIVE Dumps(_)
RECURSIVE DumpItems(_)
RECURSIVE DumpMembers(_, _, _)

DumpItems(s) ==
    IF s = <<>> THEN <<>>
    ELSE IF Len(s) = 1 THEN Dumps(s[1])
    ELSE Dumps(s[1]) \o <<",">> \o DumpItems(Tail(s))

\* members of object f whose key is KeyOrder[i..]; first says no comma yet
DumpMembers(f, i, first) ==
    IF i > Len(KeyOrder) THEN <<>>
    ELSE IF KeyOrder[i] \in DOMAIN f
         THEN (IF first THEN <<>> ELSE <<",">>)
              \o <<"\"", KeyOrder[i], "\"", ":">> \o Dumps(f[KeyOrder[i]])
              \o DumpMembers(f, i + 1, FALSE)
         ELSE DumpMembers(f, i + 1, first)

Dumps(x) ==
    CASE x.t = "null" -> <<"null">>
      [] x.t = "num" -> <<ToString(x.v)>>
      [] x.t = "str" -> <<"\"", x.v, "\"">>
      [] x.t = "list" -> <<"[">> \o DumpItems(x.v) \o <<"]">>
      [] x.t = "obj" -> <<"{">> \o DumpMembers(x.v, 1, TRUE) \o <<"}">>

\* json.dumps(x, indent=2): every member and item on a line of its own,
\* two spaces deeper than its container
Spaces(n) == [k \in 1..n |-> " "]

RECURSIVE DumpsIndent(_, _)
RECURSIVE IndentItems(_, _)
RECURSIVE IndentMembers(_, _, _, _)

IndentItems(s, level) ==
    Spaces(2 * level) \o DumpsIndent(s[1], level)
    \o (IF Len(s) = 1 THEN <<>> ELSE <<",", LF>> \o IndentItems(Tail(s), level))

IndentMembers(f, i, first, level) ==
    IF i > Len(KeyOrder) THEN <<>>
    ELSE IF KeyOrder[i] \in DOMAIN f
         THEN (IF first THEN <<>> ELSE <<",", LF>>)
              \o Spaces(2 * level) \o <<"\"", KeyOrder[i], "\"", ":", " ">>
              \o DumpsIndent(f[KeyOrder[i]], level)
              \o IndentMembers(f, i + 1, FALSE, level)
         ELSE IndentMembers(f, i + 1, first, level)

DumpsIndent(x, level) ==
    IF x.t = "list" /\ x.v # <<>>
    THEN <<"[", LF>> \o IndentItems(x.v, level + 1)
         \o <<LF>> \o Spaces(2 * level) \o <<"]">>
    ELSE IF x.t = "obj" /\ DOMAIN x.v # {}
         THEN <<"{", LF>> \o IndentMembers(x.v, 1, TRUE, level + 1)
              \o <<LF>> \o Spaces(2 * level) \o <<"}">>
         ELSE Dumps(x)

\* The same document laid out over several lines (whitespace is legal
\* between JSON tokens).
Pretty(text) ==
    IF Len(text) < 2 THEN text
    ELSE <<text[1], LF, " ">> \o SubSeq(text, 2, Len(text) - 1)
         \o <<LF, text[Len(text)]>>


(***************************************************************************)
(* The documents the MCP server and the LLM backends can produce           *)
(***************************************************************************)
ToolDescriptor == JObj("name" :> JStr("EvaluateCsharp"))
ToolsResult == JObj("tools" :> JList(<<ToolDescriptor>>))
RpcErrorPayload ==
    JObj(("code" :> JNum(-32601)) @@ ("message" :> JStr("Method not found")))

\* values a server can put under "result"
ResultValues ==
    {ToolsResult, EmptyObj, JNum(2), JNull, JStr("ok"),
     JList(<<JStr("error")>>), JObj("error" :> JStr("x"))}

\* values a server can put under "error"
ErrorPayloads == {RpcErrorPayload, JStr("boom")}

BaseEnvelope == ("jsonrpc" :> JStr("2.0")) @@ ("id" :> JNum(1))
ResultEnvelope(r) == JObj(BaseEnvelope @@ ("result" :> r))
ErrorEnvelope(e) == JObj(BaseEnvelope @@ ("error" :> e))
BothEnvelope(r, e) == JObj(BaseEnvelope @@ ("result" :> r) @@ ("error" :> e))

\* JSON-RPC response envelopes: JSON objects
Envelopes ==
    {ResultEnvelope(r) : r \in ResultValues}
    \cup {ErrorEnvelope(e) : e \in ErrorPayloads}
    \cup {BothEnvelope(ToolsResult, e) : e \in ErrorPayloads}
    \cup {JObj(BaseEnvelope)}

\* JSON documents that are not objects
NonObjectDocs == {JList(<<>>), JList(<<JStr("error")>>), JNum(5),
                  JStr("error"), JStr("ok"), JNull}

\* arguments an LLM backend can give to a tool
ToolArgs == {JObj("code" :> JStr("1+1")), EmptyObj}

\* ---- resources: what resources/read can answer
ResourceUri == "doc://System.String"

\* the `text` of a content entry: a JSON document, or text that is not JSON
JsonResourceText == "{\"k\": 1}"
ResourceTexts == {JsonResourceText, "not json", "hello"}

\* the characters of a text, as tokens
TextTokens(x) ==
    IF x = JsonResourceText THEN <<"{", "\"", "k", "\"", ":", " ", "1", "}">>
    ELSE IF x = "" THEN <<>> ELSE <<x>>

ContentEntry(mimeType, text) ==
    JObj(("uri" :> JStr(ResourceUri)) @@ ("mimeType" :> JStr(mimeType))
         @@ ("text" :> JStr(text)))
TextlessEntry(mimeType) ==
    JObj(("uri" :> JStr(ResourceUri)) @@ ("mimeType" :> JStr(mimeType)))
ResourceResult(contents) == JObj("contents" :> JList(contents))

ResourceResults ==
    {ResourceResult(<<ContentEntry(m, x)>>) :
        m \in {"application/json", "text/plain"}, x \in ResourceTexts}
    \cup {ResourceResult(<<TextlessEntry(m)>>) :
            m \in {"application/json", "text/plain"}}
    \cup {ResourceResult(<<>>),
          ResourceResult(<<ContentEntry("application/json", JsonResourceText),
                           ContentEntry("text/plain", "hello")>>)}

ResourceEnvelopes == {ResultEnvelope(r) : r \in ResourceResults}

\* the documents resource texts hold
EmbeddedDocs == {JObj("k" :> JNum(1))}

JsonDocs ==
    Envelopes \cup NonObjectDocs \cup ResultValues \cup ToolArgs
    \cup ResourceEnvelopes \cup EmbeddedDocs

\* json.loads: the document whose serialisation the text is, whitespace
\* between tokens ignored; a text that serialises no document does not decode.
Loads(text) ==
    LET bare == SelectSeq(text, LAMBDA tok : tok \notin Whitespace)
    IN  IF \E d \in JsonDocs : Dumps(d) = bare
        THEN [ok |-> TRUE, v |-> CHOOSE d \in JsonDocs : Dumps(d) = bare]
        ELSE [ok |-> FALSE, msg |-> "Expecting value"]

(***************************************************************************)
(* What the MCP server can answer to one POST                              *)
(***************************************************************************)
\* text/event-stream body carrying one event whose data is the payload
SseFrame(payload) ==
    EventPrefix \o <<" ", "message", LF>> \o DataPrefix \o payload \o <<LF, LF>>

\* an event with two data lines
SseFrame2(p1, p2) ==
    EventPrefix \o <<" ", "message", LF>> \o DataPrefix \o p1 \o <<LF>>
    \o DataPrefix \o p2 \o <<LF, LF>>

\* bodies that begin with "event:" and have no line beginning "data: "
SseNoDataBodies ==
    {EventPrefix \o <<" ", "ping", LF, LF>>,
     EventPrefix \o <<" ", "message", LF, "d", "a", "t", "a", ":">>
        \o Dumps(ResultEnvelope(ToolsResult)) \o <<LF, LF>>}

\* texts that are not JSON
NotJsonTexts == {<<>>, <<"<html>">>, <<"{", "\"", "result", "\"", ":">>}

PlainBodies ==
    {Dumps(d) : d \in Envelopes \cup NonObjectDocs}
    \cup {Pretty(Dumps(e)) : e \in Envelopes}
    \cup NotJsonTexts

SseBodies ==
    {SseFrame(Dumps(d)) : d \in Envelopes \cup NonObjectDocs}
    \cup {SseFrame(Pretty(Dumps(e))) : e \in Envelopes}
    \cup {SseFrame(t) : t \in NotJsonTexts}
    \cup {SseFrame2(Dumps(ErrorEnvelope(RpcErrorPayload)), Dumps(e)) :
            e \in {ResultEnvelope(ToolsResult), ErrorEnvelope(JStr("boom"))}}
    \cup {SseFrame2(Dumps(ResultEnvelope(JNum(2))), t) :
            t \in {Dumps(ResultEnvelope(ToolsResult)), <<"<html>">>}}
    \cup SseNoDataBodies

Bodies == PlainBodies \cup SseBodies

Statuses == {200, 302, 404, 500}

\* bodies sent with a status that is not 200
ErrorPageBodies ==
    {<<"<html>">>, Dumps(ResultEnvelope(ToolsResult)),
     SseFrame(Dumps(ResultEnvelope(ToolsResult)))}

\* messages of the httpx exceptions raised below the HTTP layer
NetworkErrors == {"All connection attempts failed", "timed out"}

ServerResponses ==
    {[kind |-> "network_error", msg |-> m] : m \in NetworkErrors}
    \cup {[kind |-> "http", status |-> 200, body |-> b] : b \in Bodies}
    \cup {[kind |-> "http", status |-> s, body |-> b] :
            s \in Statuses, b \in ErrorPageBodies}

\* what the server can answer to the resources/read of the Resources tab
ResourceServerResponses ==
    {[kind |-> "http", status |-> 200, body |-> Dumps(e)] : e \in ResourceEnvelopes}
    \cup {[kind |-> "http", status |-> 200, body |-> SseFrame(Dumps(e))] :
            e \in {ResultEnvelope(ResourceResult(
                      <<ContentEntry("application/json", JsonResourceText)>>))}}
    \cup {[kind |-> "http", status |-> 200, body |-> Dumps(e)] :
            e \in {ResultEnvelope(JNull), ResultEnvelope(EmptyObj),
                   ResultEnvelope(JStr("ok")), ErrorEnvelope(RpcErrorPayload)}}
    \cup {[kind |-> "http", status |-> 200, body |-> b] : b \in SseNoDataBodies}
    \cup {[kind |-> "network_error", msg |-> "timed out"],
          [kind |-> "http", status |-> 404, body |-> <<"<html>">>]}

(***************************************************************************)
(* McpHttpClient                                                           *)
(***************************************************************************)
Return(v) == [kind |-> "return", value |-> v]
Raise(m) == [kind |-> "raise", msg |-> m]

\* a return of _send_request, annotated with the statement that returned:
\* "result", "error" (an envelope's error), or "none" (no return statement)
ReturnVia(v, via) == [kind |-> "return", value |-> v, via |-> via]

\* __init__: base_url.rstrip("/"), mcp_url
RECURSIVE RStripSlash(_)
RStripSlash(url) ==
    IF url # <<>> /\ url[Len(url)] = "/"
    THEN RStripSlash(SubSeq(url, 1, Len(url) - 1))
    ELSE url

\* httpx.Client(timeout=30.0): a new connection handle, open
HttpxClient == [handle |-> "httpx.Client", is_closed |-> FALSE]

\* mutant of McpHttpClient: the trailing slashes are kept
McpHttpClientNoStrip(base_url) ==
    [base_url |-> base_url, mcp_url |-> base_url \o <<"/mcp">>,
     client |-> HttpxClient]

McpHttpClient(base_url) ==
    [base_url |-> RStripSlash(base_url),
     mcp_url |-> RStripSlash(base_url) \o <<"/mcp">>,
     client |-> HttpxClient]

\* mutant of close: the handle is left open
closeNothing(self) == self

\* close(): self.client.close()
close(self) == [self EXCEPT !.client.is_closed = TRUE]

\* request_data; params is JNull when the argument is omitted (None)
RequestData(method, params) ==
    JObj(("jsonrpc" :> JStr("2.0")) @@ ("id" :> JNum(1))
         @@ ("method" :> JStr(method))
         @@ ("params" :> (IF params \in {JNull, EmptyObj} THEN EmptyObj
                          ELSE params)))

PostedRequest(c, method, params) ==
    [verb |-> "POST", url |-> c.mcp_url, json |-> RequestData(method, params)]

\* Response.raise_for_status(): the message of the HTTPStatusError
StatusErrorMessage(status) ==
    CASE status \in 300..399 -> "Redirect response"
      [] status \in 400..499 -> "Client error"
      [] status \in 500..599 -> "Server error"
      [] OTHER -> "Informational response"

\* mutant of HttpPost: raise_for_status() is not called
HttpPostAnyStatus(resp) ==
    IF resp.kind = "network_error" THEN Raise(resp.msg) ELSE Return(resp.body)

\* client.post(...) followed by raise_for_status()
HttpPost(resp) ==
    IF resp.kind = "network_error" THEN Raise(resp.msg)
    ELSE IF resp.status \notin 200..299 THEN Raise(StatusErrorMessage(resp.status))
    ELSE Return(resp.body)

\* mutant of EnvelopeOutcome: a "result" member is preferred to "error"
EnvelopeOutcomeResultFirst(loaded) ==
    IF ~loaded.ok THEN Raise(loaded.msg)
    ELSE LET result == loaded.v
         IN  IF result.t # "obj" THEN Raise("object has no attribute 'get'")
             ELSE IF "result" \in DOMAIN result.v
                  THEN ReturnVia(result.v["result"], "result")
                  ELSE IF "error" \in DOMAIN result.v
                       THEN ReturnVia(JObj("error" :> result.v["error"]), "error")
                       ELSE ReturnVia(EmptyObj, "result")

\* the envelope handling after json.loads / response.json()
EnvelopeOutcome(loaded) ==
    IF ~loaded.ok THEN Raise(loaded.msg)
    ELSE LET result == loaded.v
             has == PyIn("error", result)
         IN  IF has = "TypeError" THEN Raise("argument is not iterable")
             ELSE IF has = "true"
                  THEN IF result.t = "obj"
                       THEN ReturnVia(JObj("error" :> result.v["error"]), "error")
                       ELSE Raise("indices must be integers")
                  ELSE IF result.t = "obj"
                       THEN ReturnVia(DictGet(result, "result", EmptyObj), "result")
                       ELSE Raise("object has no attribute 'get'")

\* mutant of SseOutcome: the last data line is decoded
SseOutcomeLastLine(response_text) ==
    LET lines == Split(Strip(response_text), LF)
        dataLines == {i \in 1..Len(lines) : StartsWith(lines[i], DataPrefix)}
    IN  IF dataLines = {} THEN ReturnVia(JNull, "none")
        ELSE LET final == CHOOSE i \in dataLines : \A j \in dataLines : i >= j
             IN  EnvelopeOutcome(Loads(DropFirst(lines[final], 6)))

\* the loop over the lines of an SSE body
SseOutcome(response_text) ==
    LET lines == Split(Strip(response_text), LF)
        dataLines == {i \in 1..Len(lines) : StartsWith(lines[i], DataPrefix)}
    IN  IF dataLines = {} THEN ReturnVia(JNull, "none")
        ELSE LET first == CHOOSE i \in dataLines : \A j \in dataLines : i <= j
             IN  EnvelopeOutcome(Loads(DropFirst(lines[first], 6)))

\* mutant of BodyOutcome: every body is decoded as plain JSON
BodyOutcomePlainOnly(response_text) == EnvelopeOutcome(Loads(response_text))

BodyOutcome(response_text) ==
    IF StartsWith(response_text, EventPrefix)
    THEN SseOutcome(response_text)
    ELSE EnvelopeOutcome(Loads(response_text))

\* the except clauses: every Exception becomes {"error": str(e)}
CaughtAsError(completion) ==
    IF completion.kind = "raise"
    THEN ReturnVia(JObj("error" :> JStr(completion.msg)), "except")
    ELSE completion

\* _send_request, given what the server answers
SendRequest(resp) ==
    LET posted == HttpPost(resp)
    IN  CaughtAsError(IF posted.kind = "raise" THEN posted
                      ELSE BodyOutcome(posted.value))

\* list_tools / list_resources / list_prompts, after _send_request
ListOf(result, key) ==
    LET has == PyIn("error", result)
    IN  IF has = "TypeError" THEN Raise("argument is not iterable")
        ELSE IF has = "true" THEN Return(JList(<<>>))
        ELSE IF result.t = "obj" THEN Return(DictGet(result, key, JList(<<>>)))
        ELSE Raise("object has no attribute 'get'")

list_tools(resp) == ListOf(SendRequest(resp).value, "tools")
list_resources(resp) == ListOf(SendRequest(resp).value, "resourceTemplates")
list_prompts(resp) == ListOf(SendRequest(resp).value, "prompts")

\* the params call_tool / read_resource / get_prompt pass to _send_request
CallToolParams(name, arguments) ==
    JObj(("name" :> JStr(name)) @@ ("arguments" :> arguments))

ReadResourceParams(uri) == JObj("uri" :> JStr(uri))

\* mutant of GetPromptParams: `arguments` without `or {}`
GetPromptParamsNoDefault(name, arguments) ==
    JObj(("name" :> JStr(name)) @@ ("arguments" :> arguments))

GetPromptParams(name, arguments) ==
    JObj(("name" :> JStr(name))
         @@ ("arguments" :> (IF arguments \in {JNull, EmptyObj} THEN EmptyObj
                             ELSE arguments)))

\* call_tool / read_resource / get_prompt return _send_request's value
call_tool(resp) == Return(SendRequest(resp).value)
read_resource(resp) == Return(SendRequest(resp).value)
get_prompt(resp) == Return(SendRequest(resp).value)

(***************************************************************************)
(* utils/llm_providers.py: values exchanged with the LLM backends          *)
(***************************************************************************)
MAX_TOOL_ITERATIONS == 10

\* number of leading rounds of a relay invocation in which the backend's
\* response is drawn from the whole response set
VariedRounds == 2

\* a Python str as a text: the empty string has no token
JText(tokens) == [t |-> "text", v |-> tokens]
StrText(x) == IF x = "" THEN <<>> ELSE <<x>>
NoResponse == JText(<<"No response">>)
IterationsExceeded == JText(<<"Error: ", "Maximum tool call iterations exceeded">>)

\* Python truthiness of a message content (None and "" are falsy)
Truthy(x) == ~(x = JNull \/ x = JStr("") \/ x = JText(<<>>) \/ x = JList(<<>>))

ToolNames == {"EvaluateCsharp", "ValidateCsharp"}
FinalTexts == {"The result is 2", ""}

\* the `arguments` string of an OpenAI tool call: JSON text, or text that
\* json.loads rejects
UndecodableArguments == <<"{", "\"", "code">>
ArgumentTexts == {Dumps(a) : a \in ToolArgs} \cup {UndecodableArguments}

SystemMessage == [role |-> "system", content |-> JStr("You are a helpful AI assistant")]
UserMessage(x) == [role |-> "user", content |-> JStr(x)]
AssistantMessage(x) == [role |-> "assistant", content |-> JStr(x)]

\* what the MCP server answers to the tools/call requests of a relay
OkToolResponse ==
    [kind |-> "http", status |-> 200,
     body |-> SseFrame(Dumps(ResultEnvelope(JNum(2))))]
FailedToolResponse == [kind |-> "http", status |-> 500, body |-> <<"<html>">>]
ToolServerResponses == {OkToolResponse, FailedToolResponse}

\* answers to the tools/call requests of the (round+1)-th iteration
ToolServerResponsesAt(round) ==
    IF round < VariedRounds THEN ToolServerResponses ELSE {OkToolResponse}

\* ---- OpenAI responses
OpenAIToolCall(id, name, arguments) ==
    [id |-> id, function |-> [name |-> name, arguments |-> arguments]]
OpenAIMessage(content, tool_calls) ==
    [kind |-> "message", content |-> content, tool_calls |-> tool_calls]
BackendError == [kind |-> "raise", msg |-> "Connection error."]
NoChoices == [kind |-> "no_choices"]

OpenAIFinalResponses ==
    {OpenAIMessage(JStr(x), <<>>) : x \in FinalTexts}
    \cup {OpenAIMessage(JNull, <<>>), BackendError, NoChoices}

OpenAIOneCall ==
    {OpenAIMessage(JNull, <<OpenAIToolCall("call_1", n, a)>>) :
        n \in ToolNames, a \in ArgumentTexts}

OpenAITwoCalls ==
    {OpenAIMessage(JNull,
        <<OpenAIToolCall("call_1", "EvaluateCsharp", Dumps(JObj("code" :> JStr("1+1")))),
          OpenAIToolCall("call_2", "ValidateCsharp", a)>>) :
        a \in {Dumps(EmptyObj), UndecodableArguments}}

OpenAIBasicResponses ==
    {OpenAIMessage(JStr("The result is 2"), <<>>),
     OpenAIMessage(JNull,
        <<OpenAIToolCall("call_1", "EvaluateCsharp", Dumps(JObj("code" :> JStr("1+1"))))>>)}

\* responses of the (round+1)-th backend invocation
OpenAIResponses(round) ==
    IF round < VariedRounds
    THEN OpenAIFinalResponses \cup OpenAIOneCall \cup OpenAITwoCalls
    ELSE OpenAIBasicResponses

\* ---- Anthropic responses
TextBlock(x) == [type |-> "text", text |-> JStr(x)]
ToolUseBlock(id, name, input) ==
    [type |-> "tool_use", id |-> id, name |-> name, input |-> input]
AnthropicMessage(stop_reason, content) ==
    [kind |-> "message", stop_reason |-> stop_reason, content |-> content]

AnthropicFinalResponses ==
    {AnthropicMessage("end_turn", <<TextBlock(x)>>) : x \in FinalTexts}
    \cup {AnthropicMessage("end_turn", <<>>),
          AnthropicMessage("max_tokens",
              <<ToolUseBlock("toolu_1", "EvaluateCsharp", EmptyObj)>>),
          BackendError}

AnthropicOneCall ==
    {AnthropicMessage("tool_use", <<ToolUseBlock("toolu_1", n, a)>>) :
        n \in ToolNames, a \in ToolArgs}
    \cup {AnthropicMessage("tool_use",
            <<TextBlock("Let me run that"),
              ToolUseBlock("toolu_1", "EvaluateCsharp", JObj("code" :> JStr("1+1")))>>)}

AnthropicNoCall ==
    {AnthropicMessage("tool_use", <<TextBlock("Let me run that")>>)}

AnthropicTwoCalls ==
    {AnthropicMessage("tool_use",
        <<ToolUseBlock("toolu_1", "EvaluateCsharp", JObj("code" :> JStr("1+1"))),
          ToolUseBlock("toolu_2", "ValidateCsharp", EmptyObj)>>)}

AnthropicBasicResponses ==
    {AnthropicMessage("end_turn", <<TextBlock("The result is 2")>>),
     AnthropicMessage("tool_use",
        <<ToolUseBlock("toolu_1", "EvaluateCsharp", JObj("code" :> JStr("1+1")))>>)}

AnthropicResponses(round) ==
    IF round < VariedRounds
    THEN AnthropicFinalResponses \cup AnthropicOneCall \cup AnthropicNoCall
         \cup AnthropicTwoCalls
    ELSE AnthropicBasicResponses

(***************************************************************************)
(* tabs/chat.py: the chat_response handler of the Chat tab                 *)
(***************************************************************************)
\* what the operator can submit: the message ("" is the empty text box),
\* the chat history so far, the provider chosen, the API key typed
ChatInputs == {"", "What is 1+1?"}
ChatHistories == {<<UserMessage("hello"), AssistantMessage("Hi")>>}
ProviderNames ==
    {"OpenAI", "Anthropic", "Google Gemini", "HuggingFace (Serverless)",
     "HuggingFace", "Cohere"}
ApiKeys == {"", "sk-secret"}

\* what the MCP server answers to chat_response's tools/list request
ToolsListResponses ==
    {[kind |-> "http", status |-> 200, body |-> Dumps(ResultEnvelope(ToolsResult))],
     [kind |-> "http", status |-> 200, body |-> Dumps(ResultEnvelope(JNum(2)))],
     [kind |-> "http", status |-> 500, body |-> <<"<html>">>]}

\* the messages for the API: the system message, then the history entries
\* that have a role and a content
BuildMessages(history) ==
    LET kept == SelectSeq(history, LAMBDA h : h.role # "" /\ Truthy(h.content))
    IN  <<SystemMessage>> \o
        [k \in 1..Len(kept) |-> [role |-> kept[k].role, content |-> kept[k].content]]

\* the message lists chat_response passes to a relay function
CallerMessages ==
    {BuildMessages(Append(history, UserMessage(message))) :
        history \in ChatHistories, message \in ChatInputs \ {""}}

\* the declaration built for one listed tool
ToolSpec(tool) ==
    JObj(("type" :> JStr("function")) @@
         ("function" :>
            JObj(("name" :> DictGet(tool, "name", JNull)) @@
                 ("description" :> DictGet(tool, "description", JStr(""))) @@
                 ("parameters" :> DictGet(tool, "inputSchema", EmptyObj)))))

\* `tools`, given how mcp_client.list_tools() completed: the loop
\* `for tool in mcp_tools` with its tool.get calls is outside the try
ToolSpecs(listed) ==
    IF listed.kind = "raise" THEN listed
    ELSE LET mcp_tools == listed.value
         IN  CASE mcp_tools.t = "list" ->
                    IF \A k \in 1..Len(mcp_tools.v) : mcp_tools.v[k].t = "obj"
                    THEN Return(JList([k \in 1..Len(mcp_tools.v) |->
                                         ToolSpec(mcp_tools.v[k])]))
                    ELSE Raise("object has no attribute 'get'")
               [] mcp_tools.t = "obj" ->
                    IF DOMAIN mcp_tools.v = {} THEN Return(JList(<<>>))
                    ELSE Raise("object has no attribute 'get'")
               [] mcp_tools.t = "str" ->
                    IF mcp_tools.v = "" THEN Return(JList(<<>>))
                    ELSE Raise("object has no attribute 'get'")
               [] OTHER -> Raise("object is not iterable")

\* the providers whose branch tests `if not key`
KeyedProviders == {"OpenAI", "Anthropic", "Google Gemini"}

\* the reply of such a branch when the key is empty
KeyRequired(provider_name) ==
    CASE provider_name = "OpenAI" ->
            JText(<<"Error: ", "OpenAI", " API key is required">>)
      [] provider_name = "Anthropic" ->
            JText(<<"Error: ", "Anthropic", " API key is required">>)
      [] provider_name = "Google Gemini" ->
            JText(<<"Error: ", "Google", " API key is required">>)

UnknownProvider(provider_name) ==
    JText(<<"Error: ", "Unknown provider ", provider_name>>)

\* the history chat_response returns: the user's message and the assistant's
\* reply appended; `response` is how the provider branch completed
ChatReply(history, message, response) ==
    Return(history \o
           <<UserMessage(message),
             [role |-> "assistant",
              content |-> IF response.kind = "raise"
                          THEN JText(<<"Error: ", response.msg>>)
                          ELSE response.value]>>)

\* chat_response's own completion once the relay function it called is at
\* `at` having completed as `relay`
AfterRelay(caller, at, relay) ==
    IF at = "done"
    THEN [caller EXCEPT !.completion = ChatReply(caller.history, caller.message,
                                                 relay)]
    ELSE caller

\* genai.configure(api_key=api_key): sets the module's default configuration
GenaiConfigure(config, api_key) == [config EXCEPT !.api_key = api_key]

(***************************************************************************)
(* tabs/resources.py: the read_resource handler of the Resources tab       *)
(***************************************************************************)
\* Python's `"contents" in result`: "true", "false" or "TypeError"
HasContents(result) ==
    CASE result.t = "obj" -> IF "contents" \in DOMAIN result.v THEN "true" ELSE "false"
      [] result.t = "list" -> IF \E k \in 1..Len(result.v) : result.v[k] = JStr("contents")
                              THEN "true" ELSE "false"
      [] result.t = "str" -> "false"
      [] OTHER -> "TypeError"

\* json.dumps({"error": "Please enter a resource URI"}, indent=2)
EnterUriMessage == DumpsIndent(JObj("error" :> JStr("Please enter a resource URI")), 0)

\* the formatting of one content entry
FormatContent(content) ==
    IF /\ DictGet(content, "mimeType", JNull) = JStr("application/json")
       /\ "text" \in DOMAIN content.v
    THEN LET parsed == Loads(TextTokens(content.v["text"].v))
         IN  IF parsed.ok THEN Return(JText(DumpsIndent(parsed.v, 0)))
             ELSE Return(JText(TextTokens(content.v["text"].v)))
    ELSE IF "text" \in DOMAIN content.v
         THEN Return(JText(TextTokens(content.v["text"].v)))
         ELSE Return(JText(DumpsIndent(content, 0)))

\* the formatting of what mcp_client.read_resource returned
FormatResource(result) ==
    LET has == HasContents(result)
    IN  IF has = "TypeError" THEN Raise("argument is not iterable")
        ELSE IF has = "true"
             THEN LET contents == result.v["contents"]
                  IN  IF Len(contents.v) = 1
                      THEN FormatContent(contents.v[1])
                      ELSE Return(JText(DumpsIndent(contents, 0)))
             ELSE Return(JText(DumpsIndent(result, 0)))

(***************************************************************************)
(* The relay functions, one loop iteration at a time                       *)
(***************************************************************************)
\* mutants of RangeHasNext: one iteration too many, one too few
RangeOneTooMany(i) == i <= MAX_TOOL_ITERATIONS
RangeOneTooFew(i) == i < MAX_TOOL_ITERATIONS - 1

\* `for _ in range(MAX_TOOL_ITERATIONS)`: whether an iteration follows i done
RangeHasNext(i) == i < MAX_TOOL_ITERATIONS

\* mutant of ExceptReturn: the exception leaves the function
ExceptPropagates(msg) == Raise(msg)

\* `except Exception as e: return f"Error: {e!s}"`
ExceptReturn(msg) == Return(JText(<<"Error: ", msg>>))

\* mutant of ToolCallRequest: the arguments are not forwarded
ToolCallRequestNoArguments(c, name, arguments) ==
    PostedRequest(c, "tools/call",
                  JObj(("name" :> JStr(name)) @@ ("arguments" :> EmptyObj)))

\* the tools/call request call_tool posts
ToolCallRequest(c, name, arguments) ==
    PostedRequest(c, "tools/call",
                  JObj(("name" :> JStr(name)) @@ ("arguments" :> arguments)))

\* ---- call_openai_chat
\* mutant of OpenAIToolMessages: the result message is forgotten
OpenAIToolMessagesNoResult(tool_call, result) ==
    <<[role |-> "assistant", content |-> JNull,
       tool_calls |-> <<[id |-> tool_call.id,
                         function |-> [name |-> tool_call.function.name,
                                       arguments |-> tool_call.function.arguments],
                         type |-> "function"]>>]>>

\* the two messages appended for one executed tool call
OpenAIToolMessages(tool_call, result) ==
    <<[role |-> "assistant", content |-> JNull,
       tool_calls |-> <<[id |-> tool_call.id,
                         function |-> [name |-> tool_call.function.name,
                                       arguments |-> tool_call.function.arguments],
                         type |-> "function"]>>],
      [role |-> "tool", tool_call_id |-> tool_call.id,
       content |-> JText(Dumps(result))]>>

\* mutant of OpenAIToolLoop: a Failure returned by call_tool is raised
RECURSIVE OpenAIToolLoopRaiseOnFailure(_, _, _, _, _, _)
OpenAIToolLoopRaiseOnFailure(c, msgs, reqs, tool_calls, k, resps) ==
    IF k > Len(tool_calls)
    THEN [messages |-> msgs, posted |-> reqs, status |-> "continue"]
    ELSE LET tool_call == tool_calls[k]
             tool_args == Loads(tool_call.function.arguments)
         IN  IF ~tool_args.ok
             THEN [messages |-> msgs, posted |-> reqs, status |-> "raise",
                   msg |-> tool_args.msg]
             ELSE LET result == call_tool(resps[k]).value
                      made == Append(reqs, [id |-> tool_call.id,
                                            request |-> ToolCallRequest(
                                                c, tool_call.function.name,
                                                tool_args.v),
                                            result |-> result])
                  IN  IF PyIn("error", result) = "true"
                      THEN [messages |-> msgs, posted |-> made, status |-> "raise",
                            msg |-> "tool call failed"]
                      ELSE OpenAIToolLoopRaiseOnFailure(
                              c, msgs \o OpenAIToolMessages(tool_call, result),
                              made, tool_calls, k + 1, resps)

\* `for tool_call in message.tool_calls`, from the k-th call on; resps[k] is
\* what the server answers to the k-th call's request; reqs lists the calls
\* of call_tool made so far (the request posted and the value returned)
RECURSIVE OpenAIToolLoop(_, _, _, _, _, _)
OpenAIToolLoop(c, msgs, reqs, tool_calls, k, resps) ==
    IF k > Len(tool_calls)
    THEN [messages |-> msgs, posted |-> reqs, status |-> "continue"]
    ELSE LET tool_call == tool_calls[k]
             tool_args == Loads(tool_call.function.arguments)
         IN  IF ~tool_args.ok
             THEN [messages |-> msgs, posted |-> reqs, status |-> "raise",
                   msg |-> tool_args.msg]
             ELSE LET result == call_tool(resps[k]).value
                  IN  OpenAIToolLoop(
                          c, msgs \o OpenAIToolMessages(tool_call, result),
                          Append(reqs, [id |-> tool_call.id,
                                        request |-> ToolCallRequest(
                                            c, tool_call.function.name, tool_args.v),
                                        result |-> result]),
                          tool_calls, k + 1, resps)

\* mutant of OpenAIFinalText: only a missing content gets the placeholder
OpenAIFinalTextNoneOnly(message) ==
    IF message.content # JNull THEN JText(StrText(message.content.v))
    ELSE NoResponse

\* `return message.content or "No response"`
OpenAIFinalText(message) ==
    IF Truthy(message.content) THEN JText(StrText(message.content.v))
    ELSE NoResponse

\* mutant of OpenAIIteration: the tool calls of a response are ignored
OpenAIIterationNoTools(c, msgs, response, resps) ==
    CASE response.kind = "raise" ->
            [messages |-> msgs, posted |-> <<>>, status |-> "raise",
             msg |-> response.msg]
      [] response.kind = "no_choices" ->
            [messages |-> msgs, posted |-> <<>>, status |-> "raise",
             msg |-> "list index out of range"]
      [] OTHER ->
            [messages |-> msgs, posted |-> <<>>, status |-> "return",
             value |-> OpenAIFinalText(response)]

\* one iteration of the loop of call_openai_chat
OpenAIIteration(c, msgs, response, resps) ==
    CASE response.kind = "raise" ->
            [messages |-> msgs, posted |-> <<>>, status |-> "raise",
             msg |-> response.msg]
      [] response.kind = "no_choices" ->
            [messages |-> msgs, posted |-> <<>>, status |-> "raise",
             msg |-> "list index out of range"]
      [] OTHER ->
            IF response.tool_calls # <<>>
            THEN OpenAIToolLoop(c, msgs, <<>>, response.tool_calls, 1, resps)
            ELSE [messages |-> msgs, posted |-> <<>>, status |-> "return",
                  value |-> OpenAIFinalText(response)]

\* ---- call_anthropic_chat
\* anthropic_messages: the caller's messages without the system messages
AnthropicConvert(msgs) ==
    LET kept == SelectSeq(msgs, LAMBDA m : m.role # "system")
    IN  [i \in 1..Len(kept) |-> [role |-> kept[i].role, content |-> kept[i].content]]

\* mutant of AnthropicToolMessages: the assistant's request is not recorded
AnthropicToolMessagesNoRecord(response, content, result) ==
    <<[role |-> "user",
       content |-> [t |-> "blocks",
                    v |-> <<[type |-> "tool_result", tool_use_id |-> content.id,
                             content |-> JText(Dumps(result))]>>]]>>

\* the two messages appended for one executed tool_use block
AnthropicToolMessages(response, content, result) ==
    <<[role |-> "assistant", content |-> [t |-> "blocks", v |-> response.content]],
      [role |-> "user",
       content |-> [t |-> "blocks",
                    v |-> <<[type |-> "tool_result", tool_use_id |-> content.id,
                             content |-> JText(Dumps(result))]>>]]>>

\* `for content in response.content`, from the k-th block on; resps[k] is
\* what the server answers to the request made for the k-th block
RECURSIVE AnthropicToolLoop(_, _, _, _, _, _)
AnthropicToolLoop(c, msgs, reqs, response, k, resps) ==
    IF k > Len(response.content)
    THEN [messages |-> msgs, posted |-> reqs, status |-> "continue"]
    ELSE LET content == response.content[k]
         IN  IF content.type = "tool_use"
             THEN LET result == call_tool(resps[k]).value
                  IN  AnthropicToolLoop(
                          c, msgs \o AnthropicToolMessages(response, content, result),
                          Append(reqs, [id |-> content.id,
                                        request |-> ToolCallRequest(
                                            c, content.name, content.input),
                                        result |-> result]),
                          response, k + 1, resps)
             ELSE AnthropicToolLoop(c, msgs, reqs, response, k + 1, resps)

\* `return response.content[0].text if response.content else "No response"`
AnthropicFinalText(response) ==
    IF response.content = <<>> THEN Return(NoResponse)
    ELSE IF response.content[1].type = "text"
         THEN Return(JText(StrText(response.content[1].text.v)))
         ELSE Raise("object has no attribute 'text'")

\* mutant of AnthropicIteration: the new messages replace the transcript
AnthropicIterationOverwrite(c, msgs, response, resps) ==
    IF response.kind = "raise"
    THEN [messages |-> msgs, posted |-> <<>>, status |-> "raise", msg |-> response.msg]
    ELSE IF response.stop_reason = "tool_use"
         THEN AnthropicToolLoop(c, <<>>, <<>>, response, 1, resps)
         ELSE LET final == AnthropicFinalText(response)
              IN  IF final.kind = "raise"
                  THEN [messages |-> msgs, posted |-> <<>>, status |-> "raise",
                        msg |-> final.msg]
                  ELSE [messages |-> msgs, posted |-> <<>>, status |-> "return",
                        value |-> final.value]

\* one iteration of the loop of call_anthropic_chat
AnthropicIteration(c, msgs, response, resps) ==
    IF response.kind = "raise"
    THEN [messages |-> msgs, posted |-> <<>>, status |-> "raise", msg |-> response.msg]
    ELSE IF response.stop_reason = "tool_use"
         THEN AnthropicToolLoop(c, msgs, <<>>, response, 1, resps)
         ELSE LET final == AnthropicFinalText(response)
              IN  IF final.kind = "raise"
                  THEN [messages |-> msgs, posted |-> <<>>, status |-> "raise",
                        msg |-> final.msg]
                  ELSE [messages |-> msgs, posted |-> <<>>, status |-> "return",
                        value |-> final.value]

\* ---- call_gemini_chat
GeminiResponses == {[kind |-> "text", text |-> x] : x \in FinalTexts} \cup {BackendError}

\* the prompt: "role: content" of every message with a content, joined
RECURSIVE GeminiPrompt(_)
GeminiPrompt(msgs) ==
    IF msgs = <<>> THEN <<>>
    ELSE LET rest == GeminiPrompt(Tail(msgs))
             m == Head(msgs)
         IN  IF ~Truthy(m.content) THEN rest
             ELSE <<m.role, ": ", m.content.v>>
                  \o (IF rest = <<>> THEN <<>> ELSE <<LF, LF>> \o rest)

GeminiGenerate(response) ==
    IF response.kind = "raise" THEN ExceptReturn(response.msg)
    ELSE Return(JText(StrText(response.text)))

\* ---- call_huggingface_chat
\* a streamed completion: the delta contents of its chunks (JNull: no content)
HuggingFaceStreams ==
    {<<>>, <<JNull>>, <<JStr("The result"), JStr(" is 2")>>, <<JStr("Hi"), JNull>>}
HuggingFaceResponses ==
    {[kind |-> "stream", chunks |-> ch] : ch \in HuggingFaceStreams} \cup {BackendError}

HuggingFaceMessages(msgs) ==
    LET kept == SelectSeq(msgs, LAMBDA m : Truthy(m.content))
    IN  [j \in 1..Len(kept) |-> [role |-> kept[j].role, content |-> kept[j].content]]

RECURSIVE ConcatChunks(_)
ConcatChunks(chunks) ==
    IF chunks = <<>> THEN <<>>
    ELSE (IF Truthy(Head(chunks)) THEN StrText(Head(chunks).v) ELSE <<>>)
         \o ConcatChunks(Tail(chunks))

\* mutant of HuggingFaceComplete: an empty completion is returned as it is
HuggingFaceCompleteNoPlaceholder(response) ==
    IF response.kind = "raise" THEN ExceptReturn(response.msg)
    ELSE Return(JText(ConcatChunks(response.chunks)))

HuggingFaceComplete(response) ==
    IF response.kind = "raise" THEN ExceptReturn(response.msg)
    ELSE LET text == ConcatChunks(response.chunks)
         IN  IF text # <<>> THEN Return(JText(text)) ELSE Return(NoResponse)

(***************************************************************************)
(* State                                                                   *)
(***************************************************************************)
VARIABLES
    client,              \* the console's McpHttpClient
    pc,                  \* "idle", "returned" (a client operation returned),
                         \* "awaiting_model" (in a relay loop), "done",
                         \* "released" (the client was closed)
    fn,                  \* the relay function running, "" when none
    messages,            \* the caller's message list
    anthropic_messages,  \* call_anthropic_chat's converted list
    i,                   \* loop iterations of the relay begun so far
    completion,          \* how the relay function ended
    backend_log,         \* per backend invocation: transcript length, response
    last_sent,           \* the message list given to the latest backend invocation
    tool_log,            \* per call_tool of the relay: round, id, request, result
    failure,             \* message of the exception raised inside the relay
    posted,              \* the HTTP requests the client has posted in this operation
    last,                \* the latest client operation: response, outcome, completion
    handler,             \* the console handler that ran: name, input, completion
    genai_config         \* google.generativeai's process-wide default configuration

vars == <<client, pc, fn, messages, anthropic_messages, i, completion,
          backend_log, last_sent, tool_log, failure, posted, last, handler,
          genai_config>>

\* inputs of read_resource and get_prompt (JNull: arguments omitted)
ResourceUris == {"doc://System.String"}
PromptNames == {"QuickStart"}
PromptArgs == {JNull, JObj("code" :> JStr("1+1"))}

BaseUrls == {<<"http://localhost:7071">>, <<"http://localhost:7071", "/">>,
             <<"http://localhost:7071", "/", "/">>}

NotEnded == [kind |-> "none"]
NoOperation == [op |-> "none"]
NoFailure == "none"
NoHandler == [name |-> "none"]
NotConfigured == [api_key |-> "None"]

Init ==
    /\ client \in {McpHttpClient(b) : b \in BaseUrls}
    /\ pc = "idle"
    /\ fn = ""
    /\ messages = <<>>
    /\ anthropic_messages = <<>>
    /\ i = 0
    /\ completion = NotEnded
    /\ backend_log = <<>>
    /\ last_sent = <<>>
    /\ tool_log = <<>>
    /\ failure = NoFailure
    /\ posted = <<>>
    /\ last = NoOperation
    /\ handler = NoHandler
    /\ genai_config = NotConfigured

(***************************************************************************)
(* Transport Client operations                                             *)
(***************************************************************************)
ClientOperation(op, args, method, params, resp, result) ==
    /\ pc = "idle"
    /\ pc' = "returned"
    /\ posted' = <<PostedRequest(client, method, params)>>
    /\ last' = [op |-> op, args |-> args, resp |-> resp,
                outcome |-> SendRequest(resp), completion |-> result]
    /\ UNCHANGED <<client, genai_config, fn, messages, anthropic_messages, i, completion,
                   backend_log, last_sent, tool_log, failure, handler>>

ListTools ==
    \E resp \in ServerResponses :
        ClientOperation("list_tools", <<>>, "tools/list", JNull, resp,
                        list_tools(resp))

ListResources ==
    \E resp \in ServerResponses :
        ClientOperation("list_resources", <<>>, "resources/templates/list", JNull,
                        resp, list_resources(resp))

ListPrompts ==
    \E resp \in ServerResponses :
        ClientOperation("list_prompts", <<>>, "prompts/list", JNull, resp,
                        list_prompts(resp))

CallTool ==
    \E resp \in ServerResponses, name \in ToolNames, arguments \in ToolArgs :
        ClientOperation("call_tool", <<name, arguments>>, "tools/call",
                        CallToolParams(name, arguments), resp, call_tool(resp))

ReadResource ==
    \E resp \in ServerResponses, uri \in ResourceUris :
        ClientOperation("read_resource", <<uri>>, "resources/read",
                        ReadResourceParams(uri), resp, read_resource(resp))

GetPrompt ==
    \E resp \in ServerResponses, name \in PromptNames, arguments \in PromptArgs :
        ClientOperation("get_prompt", <<name, arguments>>, "prompts/get",
                        GetPromptParams(name, arguments), resp, get_prompt(resp))

(***************************************************************************)
(* The end of the client's use                                             *)
(***************************************************************************)
Release(closed) ==
    /\ pc = "idle"
    /\ pc' = "released"
    /\ client' = closed
    /\ UNCHANGED <<genai_config, fn, messages, anthropic_messages, i, completion, backend_log,
                   last_sent, tool_log, failure, posted, last, handler>>

\* close() called on the client
Close == Release(close(client))

\* __exit__: the end of a `with McpHttpClient(...)` block
ContextExit == Release(close(client))

\* the cleanup function create_landing_page registers with atexit
Cleanup == Release(close(client))

(***************************************************************************)
(* The Resources tab                                                       *)
(***************************************************************************)
\* URIs the operator can submit; "" is the empty text box
SubmittedUris == {"", ResourceUri}

\* the read_resource handler: the click on "Read Resource"
ResourcesTabReadResource ==
    /\ pc = "idle"
    /\ pc' = "returned"
    /\ \E uri \in SubmittedUris :
         IF uri = ""
         THEN /\ posted' = <<>>
              /\ last' = NoOperation
              /\ handler' = [name |-> "read_resource", uri |-> uri,
                             completion |-> Return(JText(EnterUriMessage))]
         ELSE \E resp \in ResourceServerResponses :
                /\ posted' = <<PostedRequest(client, "resources/read",
                                             ReadResourceParams(uri))>>
                /\ last' = [op |-> "read_resource", args |-> <<uri>>, resp |-> resp,
                            outcome |-> SendRequest(resp),
                            completion |-> read_resource(resp)]
                /\ handler' = [name |-> "read_resource", uri |-> uri,
                               completion |-> FormatResource(read_resource(resp).value)]
    /\ UNCHANGED <<client, genai_config, fn, messages, anthropic_messages, i, completion,
                   backend_log, last_sent, tool_log, failure>>

(***************************************************************************)
(* Relay invocations                                                       *)
(***************************************************************************)
\* entry of a relay function up to its first backend invocation: the SDK
\* import, which fails when the package is missing
EnterRelay(name, caller, msgs, api_key, sdk_installed, converted) ==
    /\ pc = "idle"
    /\ fn' = name
    /\ messages' = msgs
    /\ i' = 0
    /\ backend_log' = <<>>
    /\ last_sent' = <<>>
    /\ tool_log' = <<>>
    /\ posted' = <<>>
    /\ last' = NoOperation
    /\ IF sdk_installed
       THEN /\ anthropic_messages' = converted
            /\ failure' = NoFailure
            /\ IF RangeHasNext(0)
               THEN pc' = "awaiting_model" /\ completion' = NotEnded
               ELSE pc' = "done" /\ completion' = Return(IterationsExceeded)
       ELSE /\ anthropic_messages' = <<>>
            /\ failure' = "No module named"
            /\ pc' = "done"
            /\ completion' = ExceptReturn("No module named")
    /\ genai_config' = IF name = "call_gemini_chat" /\ sdk_installed
                       THEN GenaiConfigure(genai_config, api_key)
                       ELSE genai_config
    /\ handler' = AfterRelay(caller, pc', completion')
    /\ UNCHANGED client

\* the four relay functions as chat_response calls them
CallOpenAIChat(caller, msgs, api_key, sdk_installed) ==
    EnterRelay("call_openai_chat", caller, msgs, api_key, sdk_installed, <<>>)

CallAnthropicChat(caller, msgs, api_key, sdk_installed) ==
    EnterRelay("call_anthropic_chat", caller, msgs, api_key, sdk_installed,
               AnthropicConvert(msgs))

CallGeminiChat(caller, msgs, api_key, sdk_installed) ==
    EnterRelay("call_gemini_chat", caller, msgs, api_key, sdk_installed, <<>>)

CallHuggingFaceChat(caller, msgs, api_key, sdk_installed) ==
    EnterRelay("call_huggingface_chat", caller, msgs, api_key, sdk_installed, <<>>)

(***************************************************************************)
(* The Chat tab                                                            *)
(***************************************************************************)
\* chat_response returning without having called a relay function;
\* `listing` is the answer to its tools/list request, NoOperation when it
\* made none
ChatResponseReturns(caller, listing, result) ==
    /\ pc' = "returned"
    /\ handler' = [caller EXCEPT !.completion = result]
    /\ last' = listing
    /\ posted' = IF listing = NoOperation THEN <<>>
                 ELSE <<PostedRequest(client, "tools/list", JNull)>>
    /\ UNCHANGED <<client, genai_config, fn, messages, anthropic_messages, i,
                   completion, backend_log, last_sent, tool_log, failure>>

\* the chat_response handler: the click on "Send"
ChatResponse ==
    /\ pc = "idle"
    /\ \E message \in ChatInputs, history \in ChatHistories,
          provider_name \in ProviderNames, key \in ApiKeys, use_mcp \in BOOLEAN,
          resp \in ToolsListResponses, sdk_installed \in BOOLEAN :
         LET caller == [name |-> "chat_response", message |-> message,
                        history |-> history, provider_name |-> provider_name,
                        key |-> key, completion |-> NotEnded]
             msgs == BuildMessages(Append(history, UserMessage(message)))
             lists == use_mcp /\ provider_name \in {"OpenAI", "Anthropic"}
             listing == IF lists
                        THEN [op |-> "list_tools", args |-> <<>>, resp |-> resp,
                              outcome |-> SendRequest(resp),
                              completion |-> list_tools(resp)]
                        ELSE NoOperation
             tools == IF lists THEN ToolSpecs(list_tools(resp))
                      ELSE Return(JList(<<>>))
         IN  IF message = ""
             THEN ChatResponseReturns(caller, NoOperation, Return(history))
             ELSE IF tools.kind = "raise"
             THEN ChatResponseReturns(caller, listing, tools)
             ELSE IF provider_name \in KeyedProviders /\ key = ""
             THEN ChatResponseReturns(caller, listing,
                      ChatReply(history, message,
                                Return(KeyRequired(provider_name))))
             ELSE CASE provider_name = "OpenAI" ->
                          CallOpenAIChat(caller, msgs, key, sdk_installed)
                    [] provider_name = "Anthropic" ->
                          CallAnthropicChat(caller, msgs, key, sdk_installed)
                    [] provider_name = "Google Gemini" ->
                          CallGeminiChat(caller, msgs, key, sdk_installed)
                    [] provider_name \in {"HuggingFace (Serverless)", "HuggingFace"} ->
                          CallHuggingFaceChat(caller, msgs, key, sdk_installed)
                    [] OTHER ->
                          ChatResponseReturns(caller, listing,
                              ChatReply(history, message,
                                        Return(UnknownProvider(provider_name))))

\* number of server answers a response's tool requests can consume
ToolSlots(response) ==
    IF response.kind # "message" THEN 0
    ELSE IF "tool_calls" \in DOMAIN response THEN Len(response.tool_calls)
    ELSE Len(response.content)

\* the end of one loop iteration `it` that received `response` for `sent`
EndIteration(it, sent, response) ==
    /\ backend_log' = Append(backend_log, [sent_len |-> Len(sent), response |-> response])
    /\ last_sent' = sent
    /\ i' = i + 1
    /\ posted' = posted \o [k \in 1..Len(it.posted) |-> it.posted[k].request]
    /\ tool_log' = tool_log \o
            [k \in 1..Len(it.posted) |->
                [round |-> i + 1, id |-> it.posted[k].id,
                 request |-> it.posted[k].request, result |-> it.posted[k].result]]
    /\ CASE it.status = "raise" ->
                /\ pc' = "done"
                /\ failure' = it.msg
                /\ completion' = ExceptReturn(it.msg)
         [] it.status = "return" ->
                /\ pc' = "done"
                /\ failure' = failure
                /\ completion' = Return(it.value)
         [] OTHER ->
                /\ failure' = failure
                /\ IF RangeHasNext(i + 1)
                   THEN pc' = "awaiting_model" /\ completion' = completion
                   ELSE pc' = "done" /\ completion' = Return(IterationsExceeded)
    /\ handler' = AfterRelay(handler, pc', completion')
    /\ UNCHANGED <<client, genai_config, fn, last>>

OpenAIRound ==
    /\ pc = "awaiting_model"
    /\ fn = "call_openai_chat"
    /\ \E response \in OpenAIResponses(i) :
         \E resps \in [1..ToolSlots(response) -> ToolServerResponsesAt(i)] :
            LET it == OpenAIIteration(client, messages, response, resps)
            IN  /\ messages' = it.messages
                /\ anthropic_messages' = anthropic_messages
                /\ EndIteration(it, messages, response)

AnthropicRound ==
    /\ pc = "awaiting_model"
    /\ fn = "call_anthropic_chat"
    /\ \E response \in AnthropicResponses(i) :
         \E resps \in [1..ToolSlots(response) -> ToolServerResponsesAt(i)] :
            LET it == AnthropicIteration(client, anthropic_messages, response, resps)
            IN  /\ anthropic_messages' = it.messages
                /\ messages' = messages
                /\ EndIteration(it, anthropic_messages, response)

\* the single backend invocation of a relay function without tool calling
SingleShot(sent, response, result) ==
    /\ backend_log' = Append(backend_log, [sent_len |-> Len(sent), response |-> response])
    /\ last_sent' = sent
    /\ i' = i + 1
    /\ pc' = "done"
    /\ failure' = IF response.kind = "raise" THEN response.msg ELSE failure
    /\ completion' = result
    /\ handler' = AfterRelay(handler, pc', completion')
    /\ UNCHANGED <<client, genai_config, fn, messages, anthropic_messages, tool_log,
                   posted, last>>

GeminiRound ==
    /\ pc = "awaiting_model"
    /\ fn = "call_gemini_chat"
    /\ \E response \in GeminiResponses :
         SingleShot(GeminiPrompt(messages), response, GeminiGenerate(response))

HuggingFaceRound ==
    /\ pc = "awaiting_model"
    /\ fn = "call_huggingface_chat"
    /\ \E response \in HuggingFaceResponses :
         SingleShot(HuggingFaceMessages(messages), response,
                    HuggingFaceComplete(response))

\* the console goes back to waiting for the next event
NextEvent ==
    /\ pc \in {"returned", "done"}
    /\ pc' = "idle"
    /\ fn' = ""
    /\ messages' = <<>>
    /\ anthropic_messages' = <<>>
    /\ i' = 0
    /\ completion' = NotEnded
    /\ backend_log' = <<>>
    /\ last_sent' = <<>>
    /\ tool_log' = <<>>
    /\ failure' = NoFailure
    /\ posted' = <<>>
    /\ last' = NoOperation
    /\ handler' = NoHandler
    /\ UNCHANGED <<client, genai_config>>

Next ==
    \/ ListTools
    \/ ListResources
    \/ ListPrompts
    \/ CallTool
    \/ ReadResource
    \/ GetPrompt
    \/ ResourcesTabReadResource
    \/ Close
    \/ ContextExit
    \/ Cleanup
    \/ ChatResponse
    \/ OpenAIRound
    \/ AnthropicRound
    \/ GeminiRound
    \/ HuggingFaceRound
    \/ NextEvent

Spec == Init /\ [][Next]_vars

(***************************************************************************)
(* Vocabulary of the properties                                            *)
(***************************************************************************)
ToolCallingRelays == {"call_openai_chat", "call_anthropic_chat"}
SingleShotRelays == {"call_gemini_chat", "call_huggingface_chat"}

\* number of backend invocations of the current relay invocation
BackendCalls == Len(backend_log)

\* the transcript the running relay function sends to its backend
Transcript == IF fn = "call_anthropic_chat" THEN anthropic_messages ELSE messages

\* a response that asks for tools in a form the relay can execute
IsToolRequest(response) ==
    /\ response.kind = "message"
    /\ IF "tool_calls" \in DOMAIN response
       THEN /\ response.tool_calls # <<>>
            /\ \A k \in 1..Len(response.tool_calls) :
                 \E a \in ToolArgs : response.tool_calls[k].function.arguments = Dumps(a)
       ELSE response.stop_reason = "tool_use"

\* a response that asks for no tool and carries a text
IsTextResponse(response) ==
    /\ response.kind = "message"
    /\ IF "tool_calls" \in DOMAIN response
       THEN response.tool_calls = <<>> /\ response.content # JNull
       ELSE /\ response.stop_reason # "tool_use"
            /\ response.content # <<>>
            /\ response.content[1].type = "text"

\* the text of such a response, as a Python str
ResponseText(response) ==
    IF "tool_calls" \in DOMAIN response THEN response.content.v
    ELSE response.content[1].text.v

\* the tool requests of a response: <<id, name, arguments>> each, the
\* arguments as the mapping the backend means
ToolRequestsOf(response) ==
    IF "tool_calls" \in DOMAIN response
    THEN [k \in 1..Len(response.tool_calls) |->
            [id |-> response.tool_calls[k].id,
             name |-> response.tool_calls[k].function.name,
             arguments |-> CHOOSE a \in ToolArgs :
                             response.tool_calls[k].function.arguments = Dumps(a)]]
    ELSE LET uses == SelectSeq(response.content, LAMBDA b : b.type = "tool_use")
         IN  [k \in 1..Len(uses) |->
                [id |-> uses[k].id, name |-> uses[k].name, arguments |-> uses[k].input]]

\* the caller's test for a Failure: `"error" in result`
IsFailure(value) == PyIn("error", value) = "true"

\* a tool-result message of the transcript, its key and its content
IsToolResultMessage(m) ==
    \/ m.role = "tool"
    \/ /\ m.role = "user"
       /\ m.content.t = "blocks"
       /\ m.content.v[1].type = "tool_result"
ToolResultKey(m) ==
    IF m.role = "tool" THEN m.tool_call_id ELSE m.content.v[1].tool_use_id
ToolResultContent(m) ==
    IF m.role = "tool" THEN m.content ELSE m.content.v[1].content

(***************************************************************************)
(* C1: within one invocation of call_openai_chat or call_anthropic_chat    *)
(* the backend's chat API is invoked at most MAX_TOOL_ITERATIONS times,    *)
(* whatever the backend and the MCP server answer.                         *)
(***************************************************************************)
C1_BackendCallsBounded ==
    fn \in ToolCallingRelays => BackendCalls <= MAX_TOOL_ITERATIONS

C1_Witness ==
    /\ fn \in ToolCallingRelays
    /\ BackendCalls = MAX_TOOL_ITERATIONS
    /\ \E k \in 1..Len(tool_log) : IsFailure(tool_log[k].result)

(***************************************************************************)
(* C2: when every backend response so far is a tool request, the relay is  *)
(* still looping while fewer than MAX_TOOL_ITERATIONS responses were       *)
(* received, and it has ended exactly when MAX_TOOL_ITERATIONS were: then  *)
(* it returned (did not raise) the iterations-exceeded string.             *)
(***************************************************************************)
AllToolRequests ==
    /\ BackendCalls >= 1
    /\ \A k \in 1..BackendCalls : IsToolRequest(backend_log[k].response)

FirstResponse == backend_log[1].response

EndedOnFirstResponse ==
    /\ fn \in ToolCallingRelays
    /\ BackendCalls >= 1
    /\ FirstResponse.kind = "message"
    /\ ~IsToolRequest(FirstResponse)
    /\ (fn = "call_openai_chat" => FirstResponse.tool_calls = <<>>)

C3_FirstTextReturned ==
    EndedOnFirstResponse =>
        /\ pc = "done"
        /\ BackendCalls = 1
        /\ posted = <<>>
        /\ tool_log = <<>>
        /\ IsTextResponse(FirstResponse) /\ ResponseText(FirstResponse) # ""
              => completion = Return(JText(<<ResponseText(FirstResponse)>>))
        /\ fn = "call_openai_chat" /\ FirstResponse.content \in {JNull, JStr("")}
              => completion = Return(JText(<<"No response">>))
        /\ fn = "call_anthropic_chat" /\ FirstResponse.content = <<>>
              => completion = Return(JText(<<"No response">>))
        /\ fn = "call_anthropic_chat" /\ IsTextResponse(FirstResponse)
              => completion = Return(JText(StrText(ResponseText(FirstResponse))))

C3_Witness ==
    /\ EndedOnFirstResponse
    /\ fn = "call_openai_chat"
    /\ IsTextResponse(FirstResponse)
    /\ completion = Return(JText(<<"The result is 2">>))

\* C3 as claimed: the text is returned unchanged, for every response text
C3_AsClaimed ==
    (EndedOnFirstResponse /\ IsTextResponse(FirstResponse)) =>
        /\ pc = "done"
        /\ BackendCalls = 1
        /\ posted = <<>>
        /\ completion = Return(JText(StrText(ResponseText(FirstResponse))))

ExecutedThisRound == SelectSeq(tool_log, LAMBDA e : e.round = i)
AppendedThisRound ==
    SubSeq(Transcript, backend_log[BackendCalls].sent_len + 1, Len(Transcript))
ResultsThisRound == SelectSeq(AppendedThisRound, IsToolResultMessage)

C5_OneResultPerToolCall ==
    (fn \in ToolCallingRelays /\ pc = "awaiting_model" /\ BackendCalls >= 1) =>
        /\ Len(ResultsThisRound) = Len(ExecutedThisRound)
        /\ \A k \in 1..Len(ExecutedThisRound) :
              /\ ToolResultKey(ResultsThisRound[k]) = ExecutedThisRound[k].id
              /\ ToolResultContent(ResultsThisRound[k])
                    = JText(Dumps(ExecutedThisRound[k].result))

C5_Witness ==
    /\ fn = "call_openai_chat"
    /\ pc = "awaiting_model"
    /\ BackendCalls = 2
    /\ Len(ExecutedThisRound) = 2
    /\ IsFailure(ExecutedThisRound[1].result)
    /\ ~IsFailure(ExecutedThisRound[2].result)

(***************************************************************************)
(* C6: when the first backend response requests exactly one tool T with    *)
(* arguments A and the second carries no tool request and a non-empty text *)
(* X, the relay returns exactly X, the backend was invoked exactly twice,  *)
(* and call_tool was invoked exactly once, posting tools/call with (T, A), *)
(* whatever the tool's result.                                             *)
(***************************************************************************)
ToolThenText ==
    /\ fn \in ToolCallingRelays
    /\ BackendCalls >= 2
    /\ IsToolRequest(backend_log[1].response)
    /\ Len(ToolRequestsOf(backend_log[1].response)) = 1
    /\ IsTextResponse(backend_log[2].response)

C6_ToolThenTextReturned ==
    (ToolThenText /\ ResponseText(backend_log[2].response) # "") =>
        LET request == ToolRequestsOf(backend_log[1].response)[1]
        IN  /\ pc = "done"
            /\ BackendCalls = 2
            /\ completion = Return(JText(<<ResponseText(backend_log[2].response)>>))
            /\ Len(tool_log) = 1
            /\ posted = <<[verb |-> "POST", url |-> client.mcp_url,
                           json |-> RequestData("tools/call",
                                JObj(("name" :> JStr(request.name))
                                     @@ ("arguments" :> request.arguments)))]>>

C6_Witness ==
    /\ ToolThenText
    /\ fn = "call_openai_chat"
    /\ ToolRequestsOf(backend_log[1].response)[1].name = "EvaluateCsharp"
    /\ ToolRequestsOf(backend_log[1].response)[1].arguments = JObj("code" :> JStr("1+1"))
    /\ tool_log[1].result = JNum(2)
    /\ completion = Return(JText(<<"The result is 2">>))

\* C6 as claimed: for every text X
C6_AsClaimed ==
    ToolThenText =>
        /\ pc = "done"
        /\ BackendCalls = 2
        /\ Len(tool_log) = 1
        /\ completion = Return(JText(StrText(ResponseText(backend_log[2].response))))

(***************************************************************************)
(* C7: when the request fails below HTTP or the server answers with a      *)
(* status outside 2xx, _send_request returns a Failure whose message is    *)
(* the non-empty message of the transport error, and list_tools returns    *)
(* the empty list.                                                         *)
(***************************************************************************)
TransportFailed(resp) ==
    \/ resp.kind = "network_error"
    \/ resp.kind = "http" /\ resp.status \notin 200..299

C7_TransportFailureIsFailure ==
    (last.op # "none" /\ TransportFailed(last.resp)) =>
        /\ last.outcome.kind = "return"
        /\ last.outcome.value.t = "obj"
        /\ DOMAIN last.outcome.value.v = {"error"}
        /\ last.outcome.value.v["error"].t = "str"
        /\ last.outcome.value.v["error"].v # ""
        /\ last.outcome.value.v["error"].v =
              (IF last.resp.kind = "network_error" THEN last.resp.msg
               ELSE StatusErrorMessage(last.resp.status))
        /\ last.op = "list_tools" => last.completion = Return(JList(<<>>))

C7_Witness ==
    /\ last.op = "list_tools"
    /\ last.resp.kind = "http"
    /\ last.resp.status = 500
    /\ last.resp.body = Dumps(ResultEnvelope(ToolsResult))
    /\ last.completion = Return(JList(<<>>))

(***************************************************************************)
(* C8: list_tools, list_resources and list_prompts never raise, whatever   *)
(* the server answers, and return an empty sequence whenever _send_request *)
(* returned a Failure.                                                     *)
(***************************************************************************)
ListOperations == {"list_tools", "list_resources", "list_prompts"}

C8_ListingNeverRaises ==
    last.op \in ListOperations =>
        /\ last.completion.kind = "return"
        /\ last.outcome.via \in {"error", "except"}
              => last.completion = Return(JList(<<>>))

(***************************************************************************)
(* C9: every outcome of _send_request is exactly one of Success and        *)
(* Failure: some return statement produced it, and the caller's test for a *)
(* Failure tells true exactly for the outcomes returned as failures.       *)
(***************************************************************************)
C9_OutcomeIsSuccessOrFailure ==
    last.op # "none" =>
        /\ last.outcome.kind = "return"
        /\ last.outcome.via # "none"
        /\ IsFailure(last.outcome.value) <=> last.outcome.via \in {"error", "except"}

(***************************************************************************)
(* C10: for every response envelope E whose JSON text has no line break,   *)
(* _send_request returns the same outcome for the body E as for the body   *)
(* "event: message\ndata: E\n\n".                                          *)
(***************************************************************************)
\* the outcome had the server sent `body` instead
OutcomeFor(body) == SendRequest([last.resp EXCEPT !.body = body])

SingleLineEnvelopeTexts == {Dumps(e) : e \in Envelopes}
EnvelopeTexts == SingleLineEnvelopeTexts \cup {Pretty(Dumps(e)) : e \in Envelopes}

C10_PlainAndSseAgree ==
    (last.op # "none" /\ last.resp.kind = "http"
        /\ last.resp.body \in SingleLineEnvelopeTexts) =>
            last.outcome = OutcomeFor(SseFrame(last.resp.body))

C10_Witness ==
    /\ last.op = "call_tool"
    /\ last.resp.kind = "http"
    /\ last.resp.status = 200
    /\ last.resp.body = Dumps(ResultEnvelope(ToolsResult))
    /\ last.outcome.value = ToolsResult
    /\ OutcomeFor(SseFrame(last.resp.body)).value = ToolsResult

\* C10 as claimed: for every valid JSON text of an envelope
C10_AsClaimed ==
    (last.op # "none" /\ last.resp.kind = "http"
        /\ last.resp.body \in EnvelopeTexts) =>
            last.outcome = OutcomeFor(SseFrame(last.resp.body))

(***************************************************************************)
(* C11: when the envelope the client decodes has an "error" member, with   *)
(* or without a "result" member, _send_request returns the Failure         *)
(* {"error": payload} with the payload as decoded, for a plain JSON body   *)
(* and for an SSE body whose first data line is the envelope.              *)
(***************************************************************************)
ErrorBearingEnvelopes == {e \in Envelopes : "error" \in DOMAIN e.v}

\* the bodies from which the client decodes envelope e
BodiesCarrying(e) ==
    {Dumps(e), Pretty(Dumps(e)), SseFrame(Dumps(e))}
    \cup {SseFrame2(Dumps(e), t) : t \in {Dumps(d) : d \in Envelopes}}

C11_ErrorKeyIsFailure ==
    (last.op # "none" /\ last.resp.kind = "http" /\ last.resp.status = 200) =>
        \A e \in ErrorBearingEnvelopes :
            last.resp.body \in BodiesCarrying(e) =>
                /\ last.outcome.kind = "return"
                /\ last.outcome.via = "error"
                /\ last.outcome.value = JObj("error" :> e.v["error"])
                /\ IsFailure(last.outcome.value)

C11_Witness ==
    /\ last.op = "call_tool"
    /\ last.resp.kind = "http"
    /\ last.resp.status = 200
    /\ last.resp.body = SseFrame(Dumps(BothEnvelope(ToolsResult, RpcErrorPayload)))
    /\ last.outcome.value = JObj("error" :> RpcErrorPayload)

(***************************************************************************)
(* C12: when the envelope the client decodes has a "result" member and no  *)
(* "error" member, _send_request returns the value of "result" itself,     *)
(* whatever JSON value it is; when it has neither member, _send_request    *)
(* returns the empty mapping.                                              *)
(***************************************************************************)
ErrorFreeEnvelopes == {e \in Envelopes : "error" \notin DOMAIN e.v}

C12_ResultIsSuccess ==
    (last.op # "none" /\ last.resp.kind = "http" /\ last.resp.status = 200) =>
        \A e \in ErrorFreeEnvelopes :
            last.resp.body \in BodiesCarrying(e) =>
                /\ last.outcome.kind = "return"
                /\ last.outcome.via = "result"
                /\ "result" \in DOMAIN e.v => last.outcome.value = e.v["result"]
                /\ "result" \notin DOMAIN e.v => last.outcome.value = EmptyObj

C12_Witness ==
    /\ last.op = "read_resource"
    /\ last.resp.kind = "http"
    /\ last.resp.status = 200
    /\ last.resp.body = Dumps(JObj(BaseEnvelope))
    /\ last.outcome = ReturnVia(EmptyObj, "result")


(***************************************************************************)
(* C13: a body that cannot be decoded -- a plain body that is not JSON, an *)
(* SSE body whose data line is not JSON, a body beginning "event:" without *)
(* any line beginning "data: " -- makes _send_request return a Failure     *)
(* whose message is that of the decode error.                              *)
(***************************************************************************)
UndecodableBodies ==
    NotJsonTexts \cup {SseFrame(t) : t \in NotJsonTexts} \cup SseNoDataBodies

C13_UndecodableIsFailure ==
    (last.op # "none" /\ last.resp.kind = "http" /\ last.resp.status = 200
        /\ last.resp.body \in UndecodableBodies) =>
            /\ last.outcome.kind = "return"
            /\ last.outcome.via = "except"
            /\ IsFailure(last.outcome.value)
            /\ last.outcome.value.v["error"].t = "str"
            /\ last.outcome.value.v["error"].v # ""


(***************************************************************************)
(* C14: every request the client issues is a POST to the base URL without  *)
(* its trailing slashes followed by "/mcp"; its body has exactly the       *)
(* members jsonrpc = "2.0", id = 1, method and params, params being a      *)
(* mapping; an operation of the client issues exactly one request, with    *)
(* the operation's method, and with the empty mapping as params when the   *)
(* operation passes no params.                                             *)
(***************************************************************************)
ExpectedMethod(op) ==
    CASE op = "list_tools" -> "tools/list"
      [] op = "list_resources" -> "resources/templates/list"
      [] op = "list_prompts" -> "prompts/list"
      [] op = "call_tool" -> "tools/call"
      [] op = "read_resource" -> "resources/read"
      [] op = "get_prompt" -> "prompts/get"

WellFormedRequest(request) ==
    /\ request.verb = "POST"
    /\ request.url = <<"http://localhost:7071", "/mcp">>
    /\ request.json.t = "obj"
    /\ DOMAIN request.json.v = {"jsonrpc", "id", "method", "params"}
    /\ request.json.v["jsonrpc"] = JStr("2.0")
    /\ request.json.v["id"] = JNum(1)
    /\ request.json.v["method"].t = "str"
    /\ request.json.v["params"].t = "obj"

C14_RequestShape ==
    /\ \A k \in 1..Len(posted) : WellFormedRequest(posted[k])
    /\ last.op # "none" =>
          /\ Len(posted) = 1
          /\ posted[1].json.v["method"] = JStr(ExpectedMethod(last.op))
          /\ last.op \in ListOperations => posted[1].json.v["params"] = EmptyObj
    /\ fn \in ToolCallingRelays =>
          \A k \in 1..Len(posted) : posted[k].json.v["method"] = JStr("tools/call")

C14_Witness ==
    /\ last.op = "list_prompts"
    /\ posted = <<[verb |-> "POST",
                   url |-> <<"http://localhost:7071", "/mcp">>,
                   json |-> JObj(("jsonrpc" :> JStr("2.0")) @@ ("id" :> JNum(1))
                                 @@ ("method" :> JStr("prompts/list"))
                                 @@ ("params" :> EmptyObj))]>>


(***************************************************************************)
(* C15: call_tool(name, args) posts "tools/call" with params {name,        *)
(* arguments: args}; read_resource(uri) posts "resources/read" with {uri}; *)
(* get_prompt(name, args) posts "prompts/get" with {name, arguments: args, *)
(* or the empty mapping when args is omitted}; each returns the value      *)
(* _send_request returned, a Failure included.                             *)
(***************************************************************************)
ActionOperations == {"call_tool", "read_resource", "get_prompt"}

ExpectedParams(op, args) ==
    CASE op = "call_tool" ->
            JObj(("name" :> JStr(args[1])) @@ ("arguments" :> args[2]))
      [] op = "read_resource" -> JObj("uri" :> JStr(args[1]))
      [] op = "get_prompt" ->
            JObj(("name" :> JStr(args[1]))
                 @@ ("arguments" :> (IF args[2] = JNull THEN EmptyObj ELSE args[2])))

C15_ActionsPropagate ==
    last.op \in ActionOperations =>
        /\ posted[1].json.v["method"] = JStr(ExpectedMethod(last.op))
        /\ posted[1].json.v["params"] = ExpectedParams(last.op, last.args)
        /\ last.completion = Return(last.outcome.value)

C15_Witness ==
    /\ last.op = "get_prompt"
    /\ last.args = <<"QuickStart", JNull>>
    /\ posted[1].json.v["params"] =
          JObj(("name" :> JStr("QuickStart")) @@ ("arguments" :> EmptyObj))
    /\ last.outcome.via = "error"
    /\ last.completion = Return(JObj("error" :> RpcErrorPayload))


(***************************************************************************)
(* C16: when the server answers with a result and no error, as plain JSON  *)
(* or in an SSE frame, list_tools returns the "tools" array of the result, *)
(* list_resources (posting "resources/templates/list") its                 *)
(* "resourceTemplates" array, list_prompts (posting "prompts/list") its    *)
(* "prompts" array, and each returns the empty list when the result has    *)
(* no such member.                                                         *)
(***************************************************************************)
ListedKey(op) ==
    CASE op = "list_tools" -> "tools"
      [] op = "list_resources" -> "resourceTemplates"
      [] op = "list_prompts" -> "prompts"

\* the member `key` of a result, the empty list when it has none
MemberOrEmpty(result, key) ==
    IF result.t = "obj" /\ key \in DOMAIN result.v THEN result.v[key]
    ELSE JList(<<>>)

C16_ListingReturnsArray ==
    (last.op \in ListOperations /\ last.resp.kind = "http" /\ last.resp.status = 200) =>
        \A e \in ErrorFreeEnvelopes :
            ("result" \in DOMAIN e.v /\ last.resp.body \in BodiesCarrying(e)) =>
                /\ posted[1].json.v["method"] = JStr(ExpectedMethod(last.op))
                /\ last.completion =
                      Return(MemberOrEmpty(e.v["result"], ListedKey(last.op)))


(***************************************************************************)
(* C17: an invocation of call_openai_chat or call_anthropic_chat that      *)
(* awaits its backend has done fewer than MAX_TOOL_ITERATIONS iterations,  *)
(* and its next step is one more iteration after which it awaits the       *)
(* backend again or has ended; it ends in one of three ways: DONE (the     *)
(* last response asked for no tool and its text, or "No response", was     *)
(* returned), EXHAUSTED (MAX_TOOL_ITERATIONS responses asked for tools and *)
(* the iterations-exceeded string was returned), FAILED (an exception was  *)
(* raised inside the call and "Error: " with its message was returned).    *)
(***************************************************************************)
LastResponse == backend_log[BackendCalls].response

\* what the relay returns for a response that asks for no tool
FinalValueOf(response) ==
    IF "tool_calls" \in DOMAIN response
    THEN IF response.content \in {JNull, JStr("")} THEN JText(<<"No response">>)
         ELSE JText(<<response.content.v>>)
    ELSE IF response.content = <<>> THEN JText(<<"No response">>)
         ELSE JText(StrText(response.content[1].text.v))

EndedDone ==
    /\ failure = NoFailure
    /\ BackendCalls \in 1..MAX_TOOL_ITERATIONS
    /\ LastResponse.kind = "message"
    /\ IF "tool_calls" \in DOMAIN LastResponse
       THEN LastResponse.tool_calls = <<>>
       ELSE LastResponse.stop_reason # "tool_use"
    /\ completion = Return(FinalValueOf(LastResponse))

EndedExhausted ==
    /\ failure = NoFailure
    /\ BackendCalls = MAX_TOOL_ITERATIONS
    /\ LastResponse.kind = "message"
    /\ IF "tool_calls" \in DOMAIN LastResponse
       THEN LastResponse.tool_calls # <<>>
       ELSE LastResponse.stop_reason = "tool_use"
    /\ completion = Return(JText(<<"Error: ", "Maximum tool call iterations exceeded">>))

EndedFailed ==
    /\ failure # NoFailure
    /\ completion = Return(JText(<<"Error: ", failure>>))

RelayAwaits == fn \in ToolCallingRelays /\ pc = "awaiting_model"
RelayEnded == fn \in ToolCallingRelays /\ pc = "done"

C17_RelayStateMachine ==
    /\ [](RelayEnded => (EndedDone \/ EndedExhausted \/ EndedFailed))
    /\ [][RelayAwaits => /\ pc' \in {"awaiting_model", "done"}
                         /\ i' = i + 1
                         /\ fn' = fn]_vars
    /\ [][RelayEnded => pc' = "idle"]_vars
    /\ [](RelayAwaits => i < MAX_TOOL_ITERATIONS /\ BackendCalls = i)

C17_Witness ==
    /\ RelayEnded
    /\ fn = "call_anthropic_chat"
    /\ EndedFailed
    /\ BackendCalls = 2
    /\ tool_log # <<>>

\* C17 as claimed: DONE and EXHAUSTED are the only ways to end
C17_AsClaimed == RelayEnded => (EndedDone \/ EndedExhausted)


(***************************************************************************)
(* C18: call_gemini_chat and call_huggingface_chat never use the MCP       *)
(* client and invoke their backend at most once: not at all when the SDK   *)
(* import fails (they return "Error: " and the message), once otherwise;   *)
(* after the invocation they return "Error: " and the message when it      *)
(* raised, else call_gemini_chat returns the response text as it is and    *)
(* call_huggingface_chat the concatenated chunk contents, or "No response" *)
(* when that is empty.                                                     *)
(***************************************************************************)
SingleShotEnded == fn \in SingleShotRelays /\ pc = "done"

NoClientUse == posted = <<>> /\ tool_log = <<>> /\ last = NoOperation

\* the non-empty chunk contents of a stream, in order
StreamText(chunks) ==
    LET kept == SelectSeq(chunks, LAMBDA ch : ch # JNull /\ ch # JStr(""))
    IN  [k \in 1..Len(kept) |-> kept[k].v]

C18_SingleShot ==
    /\ fn \in SingleShotRelays => NoClientUse /\ BackendCalls <= 1
    /\ (fn \in SingleShotRelays /\ pc = "awaiting_model") => BackendCalls = 0
    /\ SingleShotEnded =>
          /\ completion.kind = "return"
          /\ BackendCalls = 0 =>
                /\ failure # NoFailure
                /\ completion = Return(JText(<<"Error: ", failure>>))
          /\ BackendCalls = 1 =>
                LET response == backend_log[1].response
                IN  CASE response.kind = "raise" ->
                            completion = Return(JText(<<"Error: ", response.msg>>))
                      [] response.kind = "text" ->
                            completion = Return(JText(StrText(response.text)))
                      [] response.kind = "stream" ->
                            completion =
                                Return(IF StreamText(response.chunks) = <<>>
                                       THEN JText(<<"No response">>)
                                       ELSE JText(StreamText(response.chunks)))

C18_Witness ==
    /\ SingleShotEnded
    /\ fn = "call_huggingface_chat"
    /\ BackendCalls = 1
    /\ NoClientUse
    /\ completion = Return(JText(<<"The result", " is 2">>))

\* C18 as claimed: exactly one backend invocation in every invocation, and
\* the value returned is the response text or an "Error: " string
C18_AsClaimed ==
    SingleShotEnded =>
        /\ NoClientUse
        /\ BackendCalls = 1
        /\ LET response == backend_log[1].response
           IN  \/ completion.value.v[1] = "Error: "
               \/ /\ response.kind = "text"
                  /\ completion = Return(JText(StrText(response.text)))
               \/ /\ response.kind = "stream"
                  /\ completion = Return(JText(StreamText(response.chunks)))


(***************************************************************************)
(* C19: the read_resource handler of the Resources tab returns: for an     *)
(* empty URI an error object, no request being posted; for a result whose  *)
(* contents has one entry of mimeType application/json with a text, the    *)
(* parsed text serialised again, or the text itself when it does not       *)
(* parse; for one entry of another type, its text; for a contents of       *)
(* another length, the serialised contents; for every result without       *)
(* contents, a Failure included, the serialised result.                    *)
(***************************************************************************)
HandlerRan == handler.name = "read_resource"

HasContentsMember(result) == result.t = "obj" /\ "contents" \in DOMAIN result.v

IsJsonEntry(entry) ==
    /\ "mimeType" \in DOMAIN entry.v
    /\ entry.v["mimeType"] = JStr("application/json")

C19_ResourceFormatting ==
    HandlerRan =>
        IF handler.uri = ""
        THEN /\ posted = <<>>
             /\ handler.completion.kind = "return"
             /\ handler.completion.value.v =
                   <<"{", LF, " ", " ", "\"", "error", "\"", ":", " ",
                     "\"", "Please enter a resource URI", "\"", LF, "}">>
        ELSE LET result == last.completion.value
             IN  /\ Len(posted) = 1
                 /\ ~HasContentsMember(result) =>
                       handler.completion = Return(JText(DumpsIndent(result, 0)))
                 /\ HasContentsMember(result) =>
                       LET contents == result.v["contents"].v
                       IN  /\ Len(contents) # 1 =>
                                 handler.completion =
                                     Return(JText(DumpsIndent(JList(contents), 0)))
                           /\ (Len(contents) = 1 /\ "text" \in DOMAIN contents[1].v) =>
                                 LET text == TextTokens(contents[1].v["text"].v)
                                 IN  handler.completion =
                                        Return(JText(
                                            IF IsJsonEntry(contents[1]) /\ Loads(text).ok
                                            THEN DumpsIndent(Loads(text).v, 0)
                                            ELSE text))


(***************************************************************************)
(* C20: every step of a relay invocation leaves the transcript it sends to *)
(* its backend as a prefix of the transcript after the step: entries are   *)
(* only added at the end, also by the step that ends the invocation with   *)
(* an "Error: " return; call_anthropic_chat, whose transcript is its own   *)
(* converted list, leaves the caller's list as it is.                      *)
(***************************************************************************)
IsPrefix(s, t) == Len(s) <= Len(t) /\ SubSeq(t, 1, Len(s)) = s

C20_TranscriptAppendOnly ==
    [][pc = "awaiting_model" =>
          /\ fn' = fn
          /\ IsPrefix(Transcript, Transcript')
          /\ fn # "call_openai_chat" => messages' = messages]_vars

C20_Witness ==
    /\ fn = "call_openai_chat"
    /\ pc = "done"
    /\ failure # NoFailure
    /\ BackendCalls = 1
    /\ Len(messages) = backend_log[1].sent_len + 2


(***************************************************************************)
(* C21: when an invocation of call_openai_chat has ended (final answer,    *)
(* exhaustion or error), the caller's list is the list it supplied         *)
(* followed by a tool-call record and a tool result for every call_tool of *)
(* the invocation, in order; when an invocation of call_anthropic_chat has *)
(* ended, those entries are in its own converted list and the caller's     *)
(* list is as supplied.                                                    *)
(***************************************************************************)
\* the entries of transcript t from position n + 1 on are, for every
\* call_tool of the invocation in order, an assistant record and its result
HoldsToolExchanges(t, n) ==
    /\ Len(t) = n + 2 * Len(tool_log)
    /\ \A k \in 1..Len(tool_log) :
          /\ t[n + 2 * k - 1].role = "assistant"
          /\ IsToolResultMessage(t[n + 2 * k])
          /\ ToolResultKey(t[n + 2 * k]) = tool_log[k].id
          /\ ToolResultContent(t[n + 2 * k]) = JText(Dumps(tool_log[k].result))

C21_CallerListMutated ==
    RelayEnded =>
        /\ fn = "call_openai_chat" =>
              /\ \E supplied \in CallerMessages :
                    /\ IsPrefix(supplied, messages)
                    /\ HoldsToolExchanges(messages, Len(supplied))
        /\ fn = "call_anthropic_chat" =>
              /\ messages \in CallerMessages
              /\ failure # "No module named" =>
                    HoldsToolExchanges(anthropic_messages, Len(messages) - 1)

C21_Witness ==
    /\ RelayEnded
    /\ fn = "call_openai_chat"
    /\ EndedExhausted
    /\ Len(messages) > 2 * MAX_TOOL_ITERATIONS
    /\ \E k \in 1..Len(tool_log) : IsFailure(tool_log[k].result)

\* C21 as claimed: the caller's list holds the result of every call_tool,
\* for each tool-calling variant
C21_AsClaimed ==
    RelayEnded =>
        \A k \in 1..Len(tool_log) :
            \E j \in 1..Len(messages) :
                /\ IsToolResultMessage(messages[j])
                /\ ToolResultKey(messages[j]) = tool_log[k].id


(***************************************************************************)
(* C22: the message list given to each backend invocation of a             *)
(* tool-calling relay is the list the caller supplied, leading system      *)
(* message included, in order, followed by the entries appended for the    *)
(* call_tools of the earlier iterations of this invocation.                *)
(***************************************************************************)
ExecutedBefore(round) == SelectSeq(tool_log, LAMBDA e : e.round < round)

C22_WholeTranscriptSent ==
    (fn \in ToolCallingRelays /\ BackendCalls >= 1) =>
        \E supplied \in CallerMessages :
            /\ IsPrefix(supplied, last_sent)
            /\ last_sent[1].role = "system"
            /\ Len(last_sent) = Len(supplied) + 2 * Len(ExecutedBefore(BackendCalls))


(***************************************************************************)
(* C23: in the transcript of a tool-calling relay every tool-result        *)
(* message comes directly after an assistant entry that records the        *)
(* request with the result's key, and every request an assistant entry     *)
(* records has its result as the very next message.                        *)
(***************************************************************************)
\* the ids of the tool requests an assistant entry records
RecordedIds(m) ==
    IF m.role # "assistant" THEN {}
    ELSE IF "tool_calls" \in DOMAIN m
         THEN {m.tool_calls[k].id : k \in 1..Len(m.tool_calls)}
         ELSE IF m.content.t = "blocks"
              THEN {m.content.v[k].id :
                      k \in {n \in 1..Len(m.content.v) :
                               m.content.v[n].type = "tool_use"}}
              ELSE {}

C23_RequestAndResultAdjacent ==
    fn \in ToolCallingRelays =>
        \A j \in 1..Len(Transcript) :
            /\ IsToolResultMessage(Transcript[j]) =>
                  /\ j > 1
                  /\ ToolResultKey(Transcript[j]) \in RecordedIds(Transcript[j - 1])
            /\ \A id \in RecordedIds(Transcript[j]) :
                  /\ j < Len(Transcript)
                  /\ IsToolResultMessage(Transcript[j + 1])
                  /\ ToolResultKey(Transcript[j + 1]) = id


(***************************************************************************)
(* C24: for an SSE body with two lines beginning "data: ", _send_request   *)
(* returns what it returns for the body with the first of them alone,      *)
(* whatever the second line holds.                                         *)
(***************************************************************************)
DataLineTexts == {Dumps(e) : e \in Envelopes} \cup {<<"<html>">>}

C24_FirstDataLineDecides ==
    (last.op # "none" /\ last.resp.kind = "http" /\ last.resp.status = 200
        /\ StartsWith(last.resp.body, EventPrefix)) =>
            \A p1 \in DataLineTexts, p2 \in DataLineTexts :
                last.resp.body = SseFrame2(p1, p2) =>
                    last.outcome = OutcomeFor(SseFrame(p1))

C24_Witness ==
    /\ last.op = "call_tool"
    /\ last.resp.kind = "http"
    /\ last.resp.status = 200
    /\ last.resp.body = SseFrame2(Dumps(ErrorEnvelope(RpcErrorPayload)),
                                  Dumps(ResultEnvelope(ToolsResult)))
    /\ last.outcome.value = JObj("error" :> RpcErrorPayload)


(***************************************************************************)
(* C25: the client holds the one connection handle its constructor made:   *)
(* no step replaces it, every request is posted while it is open, and it   *)
(* is closed exactly by close(), by __exit__ and by the cleanup registered *)
(* for process shutdown, after which the client is used no more.           *)
(***************************************************************************)
C25_OneConnectionHandle ==
    /\ [](client.client.handle = "httpx.Client")
    /\ [](client.client.is_closed <=> pc = "released")
    /\ [](posted # <<>> => ~client.client.is_closed)
    /\ [][client' # client =>
             /\ pc = "idle"
             /\ pc' = "released"
             /\ client' = [client EXCEPT !.client.is_closed = TRUE]]_vars
    /\ [][pc = "released" => pc' = "released"]_vars

C25_Witness ==
    /\ pc = "released"
    /\ client.client = [handle |-> "httpx.Client", is_closed |-> TRUE]
    /\ client.mcp_url = <<"http://localhost:7071", "/mcp">>


(***************************************************************************)
(* C27: a Failure that call_tool returns inside a relay is put, serialised *)
(* like any other result, into the tool-result message of its request, and *)
(* the relay goes on: the backend is invoked again, unless that was the    *)
(* last permitted iteration or a later step of the same iteration raised   *)
(* (undecodable arguments of a further tool request).                      *)
(***************************************************************************)
FailedInvocations == SelectSeq(tool_log, LAMBDA e : IsFailure(e.result))

CarriesResultOf(e) ==
    \E j \in 1..Len(Transcript) :
        /\ IsToolResultMessage(Transcript[j])
        /\ ToolResultKey(Transcript[j]) = e.id
        /\ ToolResultContent(Transcript[j]) = JText(Dumps(e.result))

BackendInvokedAfter(e) ==
    \/ BackendCalls > e.round
    \/ pc = "awaiting_model" /\ BackendCalls = e.round

CapReachedAt(e) ==
    /\ e.round = MAX_TOOL_ITERATIONS
    /\ pc = "done"
    /\ completion = Return(IterationsExceeded)

RaisedInRoundOf(e) ==
    /\ BackendCalls = e.round
    /\ pc = "done"
    /\ failure # NoFailure
    /\ completion = ExceptReturn(failure)

C27_FailureDoesNotEndRelay ==
    fn \in ToolCallingRelays =>
        \A k \in 1..Len(FailedInvocations) :
            LET e == FailedInvocations[k]
            IN  /\ CarriesResultOf(e)
                /\ BackendInvokedAfter(e) \/ CapReachedAt(e) \/ RaisedInRoundOf(e)
                /\ RaisedInRoundOf(e) =>
                      /\ fn = "call_openai_chat"
                      /\ \E c \in 1..Len(backend_log[e.round].response.tool_calls) :
                            ~Loads(backend_log[e.round].response.tool_calls[c]
                                       .function.arguments).ok

C27_Witness ==
    /\ fn = "call_anthropic_chat"
    /\ pc = "done"
    /\ BackendCalls = 2
    /\ IsTextResponse(backend_log[2].response)
    /\ Len(FailedInvocations) = 1
    /\ FailedInvocations[1].round = 1
    /\ CarriesResultOf(FailedInvocations[1])

\* C27 as claimed: only the iteration cap stops the next backend invocation
C27_AsClaimed ==
    fn \in ToolCallingRelays =>
        \A k \in 1..Len(FailedInvocations) :
            /\ CarriesResultOf(FailedInvocations[k])
            /\ BackendInvokedAfter(FailedInvocations[k])
                  \/ CapReachedAt(FailedInvocations[k])


(***************************************************************************)
(* C28: between two consecutive backend invocations of one relay           *)
(* invocation at least one call_tool is executed, and the transcript sent  *)
(* with the second is strictly longer than the one sent with the first.    *)
(***************************************************************************)
ExecutedInRound(r) == SelectSeq(tool_log, LAMBDA e : e.round = r)

C28_ProgressBetweenInvocations ==
    fn \in ToolCallingRelays =>
        \A k \in 2..BackendCalls :
            /\ ExecutedInRound(k - 1) # <<>>
            /\ backend_log[k].sent_len > backend_log[k - 1].sent_len


(***************************************************************************)
(* C29: when a relay invocation has ended otherwise than by returning the  *)
(* "Error: " string made from an exception, every tool invocation it       *)
(* executed had its result in the transcript of a later backend invocation.*)
(***************************************************************************)
ResultSentLater(e) ==
    /\ BackendCalls > e.round
    /\ \E j \in (backend_log[e.round].sent_len + 1)..Len(last_sent) :
          /\ IsToolResultMessage(last_sent[j])
          /\ ToolResultKey(last_sent[j]) = e.id
          /\ ToolResultContent(last_sent[j]) = JText(Dumps(e.result))

C29_EveryResultReachesBackend ==
    (RelayEnded /\ ~EndedFailed) =>
        \A k \in 1..Len(tool_log) : ResultSentLater(tool_log[k])


(***************************************************************************)
(* C26: once chat_response has returned, nothing that outlives the call    *)
(* holds the API key it was given: not the fields of the McpHttpClient,    *)
(* not the history it returned, not any other state of the process.        *)
(***************************************************************************)
Credentials == ApiKeys \ {""}

ChatResponseRan == handler.name = "chat_response" /\ pc \in {"returned", "done"}

TextHolds(content, key) ==
    CASE content.t = "str" -> content.v = key
      [] content.t = "text" -> \E j \in 1..Len(content.v) : content.v[j] = key
      [] OTHER -> FALSE

ClientHolds(key) ==
    \/ \E j \in 1..Len(client.base_url) : client.base_url[j] = key
    \/ \E j \in 1..Len(client.mcp_url) : client.mcp_url[j] = key
    \/ client.client.handle = key

HistoryHolds(key) ==
    /\ handler.completion.kind = "return"
    /\ \E j \in 1..Len(handler.completion.value) :
          TextHolds(handler.completion.value[j].content, key)

ProcessHolds(key) == genai_config.api_key = key

C26_CredentialNotRetained ==
    (ChatResponseRan /\ handler.key \in Credentials) =>
        /\ ~ClientHolds(handler.key)
        /\ ~HistoryHolds(handler.key)
        /\ ~ProcessHolds(handler.key)

(***************************************************************************)
(* C30: chat_response with an empty API key for OpenAI, Anthropic or       *)
(* Google Gemini invokes no backend and appends the reply "Error:          *)
(* <provider> API key is required"; with an unknown provider it invokes no *)
(* backend and appends "Error: Unknown provider <name>"; with an empty     *)
(* message it returns the history unchanged and invokes nothing.           *)
(***************************************************************************)
NoBackendInvoked == fn = "" /\ BackendCalls = 0

KnownProviders ==
    {"OpenAI", "Anthropic", "Google Gemini", "HuggingFace (Serverless)", "HuggingFace"}

RepliedWith(text) ==
    handler.completion =
        Return(handler.history \o
               <<UserMessage(handler.message),
                 [role |-> "assistant", content |-> JText(text)]>>)

C30_GuardsOfChatResponse ==
    ChatResponseRan =>
        /\ (handler.message # "" /\ handler.key = ""
              /\ handler.provider_name \in {"OpenAI", "Anthropic", "Google Gemini"}) =>
              /\ NoBackendInvoked
              /\ RepliedWith(<<"Error: ", handler.provider_name,
                               " API key is required">>)
        /\ (handler.message # "" /\ handler.provider_name \notin KnownProviders) =>
              /\ NoBackendInvoked
              /\ RepliedWith(<<"Error: ", "Unknown provider ", handler.provider_name>>)
        /\ handler.message = "" =>
              /\ NoBackendInvoked
              /\ posted = <<>>
              /\ handler.completion = Return(handler.history)

=============================================================================
